---- MODULE Spec2Model ----
(***************************************************************************)
(* Static-asset pipeline of orgahome (src/orgahome/staticfiles.py):        *)
(* content-hashed file names, the build-time manifest, and the two         *)
(* resolvers (DevelopmentStaticFiles, ManifestStaticFiles) that map        *)
(* logical and hashed paths to files on disk.                              *)
(*                                                                         *)
(* Representation.                                                         *)
(*   - A file name is the sequence of its dot-separated components:        *)
(*     "app.min.css" is <<"app", "min", "css">>. Components are non-empty. *)
(*     The segment ".." is the one-component name DotDot.                  *)
(*   - A path (pathlib.PurePath, and the str made from it) is a record     *)
(*     [abs, parts]: whether it is anchored at "/", and its segments.      *)
(*     pathlib keeps ".." segments and drops "." and empty ones, so the    *)
(*     empty parts sequence is PurePath("") = PurePath(".").               *)
(*   - File contents are named byte strings: a source file holds one of    *)
(*     Contents; "passwd" is what /etc/passwd holds and "json" stands for  *)
(*     the text of the manifest file.                                      *)
(***************************************************************************)
EXTENDS Integers, Sequences, FiniteSets, TLC

VARIABLES source, dist, manifestFile, inst, parses, runsInARow, last

vars == <<source, dist, manifestFile, inst, parses, runsInARow, last>>

\* Cap on the number of ManifestStaticFiles objects one process constructs.
MaxLoads == 2

FILENAME_HASH_LEN == 64

\* The contents a source file can have: two versions of a file.
Contents == {"v1", "v2"}
\* Every byte string there is: those, the contents of files that are not
\* assets, and "old", which no file holds.
Bytes == Contents \cup {"old", "passwd", "json"}

-----------------------------------------------------------------------------
(* pathlib.PurePath                                                        *)

DotDot == <<"..">>

Path(abs, parts) == [abs |-> abs, parts |-> parts]
Rel(parts) == Path(FALSE, parts)

\* directory / filename: an absolute right operand replaces the left one.
Join(dir, p) == IF p.abs THEN p ELSE Path(dir.abs, dir.parts \o p.parts)

\* PurePath.is_relative_to: a comparison of the parts, ".." is not collapsed.
IsRelativeTo(p, dir) ==
    /\ p.abs = dir.abs
    /\ Len(dir.parts) <= Len(p.parts)
    /\ SubSeq(p.parts, 1, Len(dir.parts)) = dir.parts

\* PurePath.relative_to, for a path that is_relative_to dir.
RelativeTo(p, dir) == Rel(SubSeq(p.parts, Len(dir.parts) + 1, Len(p.parts)))

\* PurePath.name: the last segment, "" when there is none.
NameOf(p) == IF p.parts = <<>> THEN <<>> ELSE p.parts[Len(p.parts)]

\* PurePath.suffix: the last component when a dot precedes it.
Suffix(name) ==
    IF name # DotDot /\ Len(name) >= 2 THEN <<name[Len(name)]>> ELSE <<>>

\* PurePath.stem: the name without its suffix.
Stem(name) == SubSeq(name, 1, Len(name) - Len(Suffix(name)))

\* PurePath.with_stem(stem), for a path whose name is not empty.
WithStem(p, stem) ==
    Path(p.abs, SubSeq(p.parts, 1, Len(p.parts) - 1)
                    \o <<stem \o Suffix(NameOf(p))>>)

-----------------------------------------------------------------------------
(* The hash functions and the pattern that detects a hashed stem           *)

\* FILENAME_HASH_FUNC(bytes).hexdigest(): 64 lowercase hex characters,
\* distinct for distinct contents.
hexdigest(bytes) == "sha256hex:" \o bytes

\* A string of 64 hexadecimal characters written in upper case.
UpperHex == "SHA256HEXUPPER"

\* Length in characters of a component.
CompLen(c) ==
    IF c \in {hexdigest(b) : b \in Bytes} \cup {UpperHex}
    THEN FILENAME_HASH_LEN
    ELSE Len(c)

\* Whether every character of a component is in [a-z0-9].
LowerAlnum(c) ==
    c \in {hexdigest(b) : b \in Bytes} \cup {"app", "min", "css", "x", "nope"}

\* HASHED_STEM_REGEX.search(stem): the stem ends in a dot followed by
\* exactly FILENAME_HASH_LEN characters of [a-z0-9].
HashedStemMatch(stem) ==
    /\ Len(stem) >= 2
    /\ CompLen(stem[Len(stem)]) = FILENAME_HASH_LEN
    /\ LowerAlnum(stem[Len(stem)])

\* re_match.group(1): what precedes that dot.
HashedStemGroup1(stem) == SubSeq(stem, 1, Len(stem) - 1)

\* base64 of the raw digest, prefixed as an SRI token.
SriToken(bytes) == "sha256-b64:" \o bytes

-----------------------------------------------------------------------------
(* The file system                                                         *)
(*                                                                         *)
(* The package directory /orgahome holds the source tree static/ and the   *)
(* serving tree dist/; /etc/passwd is a file outside both. A tree is a     *)
(* function from the relative parts of its regular files to their bytes;   *)
(* its directories are the proper prefixes of those.                       *)

STATIC_SOURCE_PATH == Path(TRUE, <<<<"orgahome">>, <<"static">>>>)
STATIC_COMPILED_PATH == Path(TRUE, <<<<"orgahome">>, <<"dist">>>>)
MANIFEST_FILENAME == <<".staticmanifest", "json">>

PasswdFile == <<<<"etc">>, <<"passwd">>>>

License == <<<<"LICENSE">>>>
AppCss == <<<<"css">>, <<"app", "min", "css">>>>

\* The relative paths a source file can have, in the order walk() yields
\* them: the files of the top directory, then those of its sub-directories.
WalkOrder == <<License, AppCss>>
SourceFiles == {WalkOrder[i] : i \in 1..Len(WalkOrder)}

\* The three parts of the disk that change.
Disk(src, dst, mf) == [source |-> src, dist |-> dst, manifest |-> mf]

NoEntries == <<>>
Missing == [state |-> "missing", entries |-> NoEntries]
Truncated == [state |-> "truncated", entries |-> NoEntries]
Json(entries) == [state |-> "json", entries |-> entries]

NoNode == [kind |-> "none", bytes |-> ""]
DirNode == [kind |-> "dir", bytes |-> ""]
FileNode(b) == [kind |-> "file", bytes |-> b]

IsProperPrefix(p, q) == Len(p) < Len(q) /\ SubSeq(q, 1, Len(p)) = p

\* The node of `tree`, rooted at `root`, at the normalised absolute parts p.
TreeNode(root, tree, p) ==
    LET rel == SubSeq(p, Len(root) + 1, Len(p)) IN
    IF rel \in DOMAIN tree THEN FileNode(tree[rel])
    ELSE IF \E f \in DOMAIN tree : IsProperPrefix(rel, f) THEN DirNode
    ELSE NoNode

\* What is on disk at the normalised absolute parts p.
Node(disk, p) ==
    LET s == STATIC_SOURCE_PATH.parts
        d == STATIC_COMPILED_PATH.parts IN
    IF p = PasswdFile THEN FileNode("passwd")
    ELSE IF p \in {<<>>, <<<<"etc">>>>, <<<<"orgahome">>>>, s, d} THEN DirNode
    ELSE IF IsProperPrefix(s, p) THEN TreeNode(s, disk.source, p)
    ELSE IF p = d \o <<MANIFEST_FILENAME>>
         THEN (IF disk.manifest.state = "missing" THEN NoNode ELSE FileNode("json"))
    ELSE IF IsProperPrefix(d, p) THEN TreeNode(d, disk.dist, p)
    ELSE NoNode

Parent(p) == IF p = <<>> THEN <<>> ELSE SubSeq(p, 1, Len(p) - 1)

\* The kernel's path walk from `cur` over the segments `rest`: every segment
\* is looked up in a directory, ".." steps to the parent.
RECURSIVE Walk(_, _, _)
Walk(disk, cur, rest) ==
    LET n == Node(disk, cur) IN
    IF n.kind = "none" THEN [err |-> "ENOENT", at |-> cur, node |-> NoNode]
    ELSE IF rest = <<>> THEN [err |-> "ok", at |-> cur, node |-> n]
    ELSE IF n.kind = "file" THEN [err |-> "ENOTDIR", at |-> cur, node |-> NoNode]
    ELSE Walk(disk,
              IF Head(rest) = DotDot THEN Parent(cur) ELSE Append(cur, Head(rest)),
              Tail(rest))

\* os.stat of an absolute path.
Stat(disk, p) == Walk(disk, <<>>, p.parts)

\* Path.exists: FALSE on every error of the walk.
Exists(disk, p) == Stat(disk, p).err = "ok"

-----------------------------------------------------------------------------
(* Results of the operations                                               *)

None == [tag |-> "None"]
Raise(exc) == [tag |-> "raise", exc |-> exc]
\* A str made from a path.
PathStr(p) == [tag |-> "path", path |-> p]
SriStr(token) == [tag |-> "sri", token |-> token]
\* (str(disk_path), stat): `real` is the location the kernel resolved
\* disk_path to, kind and bytes are what is there.
Found(disk_path, st) ==
    [tag |-> "found", disk_path |-> disk_path, real |-> st.at,
     kind |-> st.node.kind, bytes |-> st.node.bytes]
BytesRead(b) == [tag |-> "bytes", bytes |-> b]

ErrnoException(err) ==
    IF err = "ENOTDIR" THEN "NotADirectoryError" ELSE "FileNotFoundError"

\* Path.read_bytes
ReadBytes(disk, p) ==
    LET st == Stat(disk, p) IN
    IF st.err # "ok" THEN Raise(ErrnoException(st.err))
    ELSE IF st.node.kind = "dir" THEN Raise("IsADirectoryError")
    ELSE BytesRead(st.node.bytes)

-----------------------------------------------------------------------------
(* hashed_filename, sri_hash, lookup_path                                  *)

hashed_filename(disk, root, file) ==
    LET rd == ReadBytes(disk, Join(root, file)) IN
    IF rd.tag = "raise" THEN rd
    ELSE IF NameOf(file) = <<>> THEN Raise("ValueError")
    ELSE PathStr(WithStem(file, Stem(NameOf(file)) \o <<hexdigest(rd.bytes)>>))

sri_hash(disk, root, file) ==
    LET rd == ReadBytes(disk, Join(root, file)) IN
    IF rd.tag = "raise" THEN rd ELSE SriStr(SriToken(rd.bytes))

\* The loop of lookup_path over pairs <<directory, filename>>, directories
\* outermost.
RECURSIVE LookupLoop(_, _)
LookupLoop(disk, pairs) ==
    IF pairs = <<>> THEN None
    ELSE LET directory == Head(pairs)[1]
             disk_path == Join(directory, Head(pairs)[2])
             st == Stat(disk, disk_path) IN
         IF ~IsRelativeTo(disk_path, directory) THEN None
         ELSE IF st.err = "ok" THEN Found(disk_path, st)
         ELSE IF st.err = "ENOENT" THEN LookupLoop(disk, Tail(pairs))
         ELSE Raise(ErrnoException(st.err))

RECURSIVE Pairs(_, _)
Pairs(directories, filenames) ==
    IF directories = <<>> THEN <<>>
    ELSE [i \in 1..Len(filenames) |-> <<Head(directories), filenames[i]>>]
             \o Pairs(Tail(directories), filenames)

lookup_path(disk, directories, filenames) ==
    LookupLoop(disk, Pairs(directories, filenames))

-----------------------------------------------------------------------------
(* DevelopmentStaticFiles, over static_dir = STATIC_SOURCE_PATH            *)

Dev_resolve_path(disk, file) ==
    LET resolved_path == Join(STATIC_SOURCE_PATH, file) IN
    IF ~IsRelativeTo(resolved_path, STATIC_SOURCE_PATH) THEN None
    ELSE IF ~Exists(disk, resolved_path) THEN None
    ELSE PathStr(RelativeTo(resolved_path, STATIC_SOURCE_PATH))

Dev_hash_path(disk, file) ==
    LET resolved_path == Dev_resolve_path(disk, file) IN
    IF resolved_path = None THEN None
    ELSE hashed_filename(disk, STATIC_SOURCE_PATH, resolved_path.path)

Dev_file_candidates(file) ==
    IF HashedStemMatch(Stem(NameOf(file)))
    THEN <<file, WithStem(file, HashedStemGroup1(Stem(NameOf(file))))>>
    ELSE <<file>>

Dev_hashed_path_to_file(disk, path) ==
    lookup_path(disk, <<STATIC_SOURCE_PATH>>, Dev_file_candidates(path))

Dev_get_sri_hash(disk, file) ==
    LET resolved_path == Dev_resolve_path(disk, file) IN
    IF resolved_path = None THEN None
    ELSE sri_hash(disk, STATIC_SOURCE_PATH, resolved_path.path)

-----------------------------------------------------------------------------
(* ManifestStaticFiles, over STATIC_SOURCE_PATH and STATIC_COMPILED_PATH   *)

ManifestEntry(hashed_path, sri) == [hashed_path |-> hashed_path, sri_hash |-> sri]

\* load_manifest: open() and json.load of the manifest file.
load_manifest(disk) ==
    IF disk.manifest.state = "missing" THEN Raise("FileNotFoundError")
    ELSE IF disk.manifest.state = "truncated" THEN Raise("JSONDecodeError")
    ELSE [tag |-> "manifest", entries |-> disk.manifest.entries]

Manifest_hash_path(manifest, file) ==
    IF file \in DOMAIN manifest THEN PathStr(manifest[file].hashed_path) ELSE None

Manifest_hashed_path_to_file(disk, path) ==
    lookup_path(disk, <<STATIC_COMPILED_PATH, STATIC_SOURCE_PATH>>, <<path>>)

Manifest_get_sri_hash(manifest, file) ==
    IF file \in DOMAIN manifest THEN SriStr(manifest[file].sri_hash) ELSE None

-----------------------------------------------------------------------------
(* compile_static_files(STATIC_SOURCE_PATH, STATIC_COMPILED_PATH)          *)

\* The files walk() yields: the regular files of the source tree.
WalkFiles(src) == SelectSeq(WalkOrder, LAMBDA f : f \in DOMAIN src)

\* CompileFile with a fault: the copy goes to the unhashed name under dest_path.
CompileFile_CopyUnhashed(disk, acc, f) ==
    LET file == Rel(f)
        hashed_name == hashed_filename(disk, STATIC_SOURCE_PATH, file).path
        sri == sri_hash(disk, STATIC_SOURCE_PATH, file).token
        copied == ReadBytes(disk, Join(STATIC_SOURCE_PATH, file)).bytes IN
    [manifest |-> (file :> ManifestEntry(hashed_name, sri)) @@ acc.manifest,
     dist |-> (file.parts :> copied) @@ acc.dist]

\* One turn of the loop body for the source file f: the manifest entry and
\* the copy to the hashed name under dest_path.
CompileFile(disk, acc, f) ==
    LET file == Rel(f)
        hashed_name == hashed_filename(disk, STATIC_SOURCE_PATH, file).path
        sri == sri_hash(disk, STATIC_SOURCE_PATH, file).token
        copied == ReadBytes(disk, Join(STATIC_SOURCE_PATH, file)).bytes IN
    [manifest |-> (file :> ManifestEntry(hashed_name, sri)) @@ acc.manifest,
     dist |-> (hashed_name.parts :> copied) @@ acc.dist]

\* The loop over the first n files of `files`.
RECURSIVE CompileLoop(_, _, _)
CompileLoop(disk, files, n) ==
    IF n = 0 THEN [manifest |-> NoEntries, dist |-> disk.dist]
    ELSE CompileFile(disk, CompileLoop(disk, files, n - 1), files[n])

\* CompileAll with a fault: the run empties dest_path before it copies.
CompileAll_FreshDest(disk) ==
    LET files == WalkFiles(disk.source) IN
    CompileLoop(Disk(disk.source, NoEntries, disk.manifest), files, Len(files))

\* The whole run: every file, then the manifest written over the old one.
CompileAll(disk) ==
    LET files == WalkFiles(disk.source) IN CompileLoop(disk, files, Len(files))

\* The ways a run can fail on an I/O error: on the n-th file, before its
\* copy exists; opening the manifest for writing; or writing into the
\* opened, and so emptied, manifest.
AbortPoints(src) ==
    {[phase |-> "file", n |-> n] : n \in 1..Len(WalkFiles(src))}
        \cup {[phase |-> ph, n |-> Len(WalkFiles(src)) + 1] : ph \in {"open", "write"}}

AbortedDist(disk, pt) ==
    CompileLoop(disk, WalkFiles(disk.source), pt.n - 1).dist

\* The OSError a failed run raises, named after where it failed.
AbortError(pt) == "OSError:" \o pt.phase

\* AbortedManifest with a fault: the manifest is written before the copies.
AbortedManifest_WrittenFirst(disk, pt) ==
    IF pt.phase = "write" THEN Truncated
    ELSE Json(CompileLoop(disk, WalkFiles(disk.source),
                          Len(WalkFiles(disk.source))).manifest)

AbortedManifest(disk, pt) ==
    IF pt.phase = "write" THEN Truncated ELSE disk.manifest

-----------------------------------------------------------------------------
(* State                                                                   *)
(*   source, dist   the regular files under static/ and under dist/        *)
(*   manifestFile   dist/.staticmanifest.json                              *)
(*   inst           the ManifestStaticFiles object of the process          *)
(*   parses         how many times load_manifest has returned a manifest   *)
(*   runsInARow     successful builds since the source tree last changed   *)
(*                  or a build failed, counted up to 2                     *)
(*   last           the last operation, its argument and its result        *)

CurrentDisk == Disk(source, dist, manifestFile)

NoInstance == [loaded |-> FALSE, manifest |-> NoEntries]
Instance(entries) == [loaded |-> TRUE, manifest |-> entries]

Call(op, arg, res) == [op |-> op, arg |-> arg, res |-> res]

\* The hashed name of the source file f holding the bytes b.
HashedName(f, b) == WithStem(Rel(f), Stem(NameOf(Rel(f))) \o <<hexdigest(b)>>)

\* Logical paths a template asks for, and hashed paths a browser asks for.
LogicalPaths == {Rel(f) : f \in SourceFiles}
HashedPaths == {HashedName(f, b) : f \in SourceFiles, b \in Contents}
AssetPaths == LogicalPaths \cup HashedPaths \cup {Rel(<<<<"nope", "js">>>>)}

\* Further request paths: the empty path, directories, a path through a
\* regular file, stale, upper-case and doubled hashes, "..", absolute paths.
ProbePaths ==
    {Rel(<<>>), Rel(<<<<"css">>>>), Rel(<<<<"LICENSE">>, <<"x">>>>),
     Rel(<<<<"LICENSE", hexdigest("old")>>>>),
     Rel(<<<<"css">>, <<"app", "min", hexdigest("old"), "css">>>>),
     Rel(<<<<"css">>, <<"app", "min", UpperHex, "css">>>>),
     Rel(<<<<"css">>, <<"app", "min", hexdigest("v1"), hexdigest("v1"), "css">>>>),
     Rel(<<<<"css">>, DotDot, <<"LICENSE">>>>),
     Rel(<<<<"nope">>, DotDot, <<"LICENSE">>>>),
     Rel(<<DotDot, DotDot, <<"etc">>, <<"passwd">>>>),
     Rel(<<DotDot, DotDot, <<"etc">>, <<"passwd", hexdigest("old")>>>>),
     Rel(<<DotDot, <<"dist">>, MANIFEST_FILENAME>>),
     Path(TRUE, PasswdFile),
     Path(TRUE, STATIC_SOURCE_PATH.parts \o License)}

ReqPaths == AssetPaths \cup ProbePaths

SourceTrees ==
    UNION {[fs -> Contents] : fs \in SUBSET SourceFiles}

Init ==
    /\ source = NoEntries
    /\ dist = NoEntries
    /\ manifestFile = Missing
    /\ inst = NoInstance
    /\ parses = 0
    /\ runsInARow = 0
    /\ last = Call("start", Rel(<<>>), None)

-----------------------------------------------------------------------------
(* The source tree is edited between builds                                *)

WriteSource(f, b) ==
    /\ source' = (f :> b) @@ source
    /\ source' # source
    /\ runsInARow' = 0
    /\ last' = Call("write", Rel(<<>>), None)
    /\ UNCHANGED <<dist, manifestFile, inst, parses>>

RemoveSource(f) ==
    /\ f \in DOMAIN source
    /\ source' = [g \in DOMAIN source \ {f} |-> source[g]]
    /\ runsInARow' = 0
    /\ last' = Call("unlink", Rel(<<>>), None)
    /\ UNCHANGED <<dist, manifestFile, inst, parses>>

-----------------------------------------------------------------------------
(* Builds                                                                  *)

\* Compile with a fault: the new entries are added to the old manifest.
Compile_KeepOldEntries ==
    LET out == CompileAll(CurrentDisk) IN
    /\ dist' = out.dist
    /\ manifestFile' = Json(out.manifest @@ manifestFile.entries)
    /\ runsInARow' = IF runsInARow = 0 THEN 1 ELSE 2
    /\ last' = Call("compile_static_files", Rel(<<>>), None)
    /\ UNCHANGED <<source, inst, parses>>

Compile ==
    LET out == CompileAll(CurrentDisk) IN
    /\ dist' = out.dist
    /\ manifestFile' = Json(out.manifest)
    /\ runsInARow' = IF runsInARow = 0 THEN 1 ELSE 2
    /\ last' = Call("compile_static_files", Rel(<<>>), None)
    /\ UNCHANGED <<source, inst, parses>>

CompileAbort(pt) ==
    /\ dist' = AbortedDist(CurrentDisk, pt)
    /\ manifestFile' = AbortedManifest(CurrentDisk, pt)
    /\ runsInARow' = 0
    /\ last' = Call("compile_static_files", Rel(<<>>), Raise(AbortError(pt)))
    /\ UNCHANGED <<source, inst, parses>>

-----------------------------------------------------------------------------
(* ManifestStaticFiles                                                     *)

\* __init__: self.manifest = self.load_manifest()
Construct ==
    LET loaded == load_manifest(CurrentDisk) IN
    /\ loaded.tag = "raise" \/ parses < MaxLoads
    /\ parses' = IF loaded.tag = "raise" THEN parses ELSE parses + 1
    /\ inst' = IF loaded.tag = "raise" THEN inst ELSE Instance(loaded.entries)
    /\ last' = Call("__init__", Rel(<<>>), IF loaded.tag = "raise" THEN loaded ELSE None)
    /\ UNCHANGED <<source, dist, manifestFile, runsInARow>>

\* ManifestHashPath with a fault: the manifest is loaded again on each call.
ManifestHashPath_Reload(file) ==
    LET loaded == load_manifest(CurrentDisk) IN
    /\ inst.loaded
    /\ parses < MaxLoads
    /\ loaded.tag # "raise"
    /\ parses' = parses + 1
    /\ inst' = Instance(loaded.entries)
    /\ last' = Call("Manifest.hash_path", file, Manifest_hash_path(inst'.manifest, file))
    /\ UNCHANGED <<source, dist, manifestFile, runsInARow>>

ManifestHashPath(file) ==
    /\ inst.loaded
    /\ last' = Call("Manifest.hash_path", file, Manifest_hash_path(inst.manifest, file))
    /\ UNCHANGED <<source, dist, manifestFile, inst, parses, runsInARow>>

ManifestGetSriHash(file) ==
    /\ inst.loaded
    /\ last' = Call("Manifest.get_sri_hash", file,
                    Manifest_get_sri_hash(inst.manifest, file))
    /\ UNCHANGED <<source, dist, manifestFile, inst, parses, runsInARow>>

ManifestHashedPathToFile(path) ==
    /\ inst.loaded
    /\ last' = Call("Manifest.hashed_path_to_file", path,
                    Manifest_hashed_path_to_file(CurrentDisk, path))
    /\ UNCHANGED <<source, dist, manifestFile, inst, parses, runsInARow>>

-----------------------------------------------------------------------------
(* DevelopmentStaticFiles                                                  *)

DevHashPath(file) ==
    /\ last' = Call("Dev.hash_path", file, Dev_hash_path(CurrentDisk, file))
    /\ UNCHANGED <<source, dist, manifestFile, inst, parses, runsInARow>>

DevGetSriHash(file) ==
    /\ last' = Call("Dev.get_sri_hash", file, Dev_get_sri_hash(CurrentDisk, file))
    /\ UNCHANGED <<source, dist, manifestFile, inst, parses, runsInARow>>

DevHashedPathToFile(path) ==
    /\ last' = Call("Dev.hashed_path_to_file", path,
                    Dev_hashed_path_to_file(CurrentDisk, path))
    /\ UNCHANGED <<source, dist, manifestFile, inst, parses, runsInARow>>

-----------------------------------------------------------------------------
(* Spec: builds, source edits and a production process serving assets      *)

Next ==
    \/ \E f \in SourceFiles, b \in Contents : WriteSource(f, b)
    \/ \E f \in SourceFiles : RemoveSource(f)
    \/ Compile
    \/ \E pt \in AbortPoints(source) : CompileAbort(pt)
    \/ Construct
    \/ \E file \in LogicalPaths : ManifestHashPath(file)
    \/ \E file \in LogicalPaths : ManifestGetSriHash(file)
    \/ \E path \in HashedPaths : ManifestHashedPathToFile(path)

Spec == Init /\ [][Next]_vars

(* SpecResolve: the resolvers of both variants, asked for every request    *)
(* path, over a source tree and the output of a build of a (possibly       *)
(* older) source tree.                                                     *)

InitResolve ==
    \E src \in SourceTrees, built \in SourceTrees :
        LET out == CompileAll(Disk(built, NoEntries, Missing)) IN
        /\ source = src
        /\ dist = out.dist
        /\ manifestFile = Json(out.manifest)
        /\ inst = Instance(out.manifest)
        /\ parses = 1
        /\ runsInARow = IF src = built THEN 1 ELSE 0
        /\ last = Call("start", Rel(<<>>), None)

NextResolve ==
    \/ \E file \in ReqPaths : DevHashPath(file)
    \/ \E file \in ReqPaths : DevGetSriHash(file)
    \/ \E path \in ReqPaths : DevHashedPathToFile(path)
    \/ \E file \in ReqPaths : ManifestHashPath(file)
    \/ \E file \in ReqPaths : ManifestGetSriHash(file)
    \/ \E path \in ReqPaths : ManifestHashedPathToFile(path)

SpecResolve == InitResolve /\ [][NextResolve]_vars

-----------------------------------------------------------------------------
(* Vocabulary of the properties                                            *)

DevOps == {"Dev.hash_path", "Dev.get_sri_hash", "Dev.hashed_path_to_file"}
ManifestOps ==
    {"Manifest.hash_path", "Manifest.get_sri_hash", "Manifest.hashed_path_to_file"}

\* The root directories an operation serves from.
RootsOf(op) ==
    IF op \in DevOps THEN {STATIC_SOURCE_PATH}
    ELSE {STATIC_COMPILED_PATH, STATIC_SOURCE_PATH}

\* The parts of a path with every ".." taken together with the segment
\* before it.
RECURSIVE Collapse(_, _)
Collapse(done, rest) ==
    IF rest = <<>> THEN done
    ELSE IF Head(rest) = DotDot THEN Collapse(Parent(done), Tail(rest))
    ELSE Collapse(Append(done, Head(rest)), Tail(rest))

\* The location that `path`, requested under `root`, resolves to.
ResolvedParts(root, path) == Collapse(<<>>, Join(root, path).parts)

EscapesRoot(root, path) ==
    LET at == ResolvedParts(root, path) IN
    at # root.parts /\ ~IsProperPrefix(root.parts, at)

HasDotDot(path) == \E i \in 1..Len(path.parts) : path.parts[i] = DotDot

\* `path`, requested under `root`, is a regular file inside root.
RegularUnder(disk, root, path) ==
    LET st == Stat(disk, Join(root, path)) IN
    /\ st.err = "ok"
    /\ st.node.kind = "file"
    /\ IsProperPrefix(root.parts, st.at)

\* The source file f is a regular file of the source tree.
FileAt(f) == STATIC_SOURCE_PATH.parts \o f

-----------------------------------------------------------------------------
(* C1: hashed_path_to_file, of either variant, returns None for every      *)
(* request path that resolves outside every root it serves from.           *)
C1_TraversalSafety ==
    (/\ last.op \in {"Dev.hashed_path_to_file", "Manifest.hashed_path_to_file"}
     /\ \A root \in RootsOf(last.op) : EscapesRoot(root, last.arg))
        => last.res = None

(* C2: the development hash_path and get_sri_hash return None for every    *)
(* logical path that resolves outside the asset root.                      *)
C2_DevHashStaysInRoot ==
    (/\ last.op \in {"Dev.hash_path", "Dev.get_sri_hash"}
     /\ EscapesRoot(STATIC_SOURCE_PATH, last.arg))
        => last.res = None

(* C3: after a build has completed and a ManifestStaticFiles has loaded    *)
(* its manifest, every regular file A of the source tree has a hash_path,  *)
(* and hashed_path_to_file of it is a file holding the bytes A had when    *)
(* it was built.                                                           *)
C3_BuildRoundTrip ==
    (/\ runsInARow >= 1
     /\ inst.loaded
     /\ inst.manifest = manifestFile.entries)
        => \A f \in DOMAIN source :
              LET hashed == Manifest_hash_path(inst.manifest, Rel(f)) IN
              /\ hashed # None
              /\ LET found == Manifest_hashed_path_to_file(CurrentDisk, hashed.path) IN
                 /\ found.tag = "found"
                 /\ found.kind = "file"
                 /\ found.bytes = source[f]

C3_Witness ==
    /\ runsInARow >= 1
    /\ inst.loaded
    /\ inst.manifest = manifestFile.entries
    /\ DOMAIN source = SourceFiles
    /\ last.op = "Manifest.hashed_path_to_file"
    /\ last.arg = HashedName(AppCss, source[AppCss])
    /\ last.res.tag = "found"

(* C4: as long as a loaded manifest lives, whatever edits of the source    *)
(* tree and builds come later, every path hash_path returns is one that    *)
(* hashed_path_to_file resolves.                                           *)
C4_HashPathResolvable ==
    inst.loaded =>
        \A file \in AssetPaths \cup DOMAIN inst.manifest :
            LET hashed == Manifest_hash_path(inst.manifest, file) IN
            hashed # None =>
                Manifest_hashed_path_to_file(CurrentDisk, hashed.path).tag = "found"

\* A stale manifest: the file was removed and the tree rebuilt since.
C4_Witness ==
    /\ inst.loaded
    /\ Rel(License) \in DOMAIN inst.manifest
    /\ License \notin DOMAIN source
    /\ manifestFile.state = "json"
    /\ inst.manifest # manifestFile.entries
    /\ last.op = "Manifest.hashed_path_to_file"
    /\ last.arg = inst.manifest[Rel(License)].hashed_path
    /\ last.res.tag = "found"

\* Whether `path` names an asset of the operation: a key of the manifest,
\* or a regular file under a root (for the development hashed_path_to_file,
\* with or without its hash segment).
Corresponds(op, path) ==
    IF op \in {"Manifest.hash_path", "Manifest.get_sri_hash"}
    THEN path \in DOMAIN inst.manifest
    ELSE \E root \in RootsOf(op) :
            \E candidate \in IF op = "Dev.hashed_path_to_file"
                             THEN {Dev_file_candidates(path)[i] :
                                       i \in 1..Len(Dev_file_candidates(path))}
                             ELSE {path} :
                RegularUnder(CurrentDisk, root, candidate)

(* C5: for a relative path without ".." that is not an existing regular    *)
(* file under the root (a missing name, a directory, the empty path, a     *)
(* path through a regular file), every operation of both resolvers         *)
(* returns None and raises nothing.                                        *)
C5_NotFoundIsNone ==
    (/\ last.op \in DevOps \cup ManifestOps
     /\ ~last.arg.abs
     /\ ~HasDotDot(last.arg)
     /\ ~Corresponds(last.op, last.arg))
        => last.res = None

(* C6: with S+X a regular file of the asset root and H any 64 lowercase    *)
(* hexadecimal characters, the development hashed_path_to_file of S.H+X,   *)
(* when no file of that name exists, is the file S+X.                      *)
C6_StaleSuffix ==
    \A f \in DOMAIN source, b \in Bytes :
        (/\ last.op = "Dev.hashed_path_to_file"
         /\ last.arg = HashedName(f, b)
         /\ ~Exists(CurrentDisk, Join(STATIC_SOURCE_PATH, last.arg)))
            => (last.res.tag = "found" /\ last.res.real = FileAt(f))

C8_BuildIdempotent ==
    /\ [][runsInARow' = 2 => (manifestFile' = manifestFile /\ dist' = dist)]_vars
    /\ [](runsInARow >= 1 =>
            /\ manifestFile.state = "json"
            /\ DOMAIN manifestFile.entries = {Rel(f) : f \in DOMAIN source})

C8_Witness ==
    /\ runsInARow = 2
    /\ DOMAIN source = SourceFiles
    /\ last.op = "compile_static_files"
    /\ Cardinality(DOMAIN dist) > Cardinality(DOMAIN source)

(* C10: every entry of the manifest file names a hashed path that exists   *)
(* in the destination directory, in every state that builds, failed builds *)
(* and source edits lead to.                                               *)
ManifestEntriesExist ==
    \A key \in DOMAIN manifestFile.entries :
        RegularUnder(CurrentDisk, STATIC_COMPILED_PATH,
                     manifestFile.entries[key].hashed_path)

BuildFailed == last.op = "compile_static_files" /\ last.res.tag = "raise"

(* C10, as claimed: and a build that fails leaves the manifest file that   *)
(* the build before it wrote as it was.                                    *)
C10_AbortKeepsManifest ==
    /\ []ManifestEntriesExist
    /\ [][(BuildFailed' /\ manifestFile.state = "json")
            => manifestFile' = manifestFile]_vars

(* C10, amended: and a build that fails before it writes into the manifest *)
(* file leaves that file as it was, while one that fails writing into it   *)
(* leaves it emptied, with no entry.                                       *)
C10_ManifestAfterFiles ==
    /\ []ManifestEntriesExist
    /\ [][BuildFailed' =>
            IF last'.res.exc = "OSError:write"
            THEN manifestFile' = Truncated
            ELSE manifestFile' = manifestFile]_vars

\* A build failed on its second file: the first is copied, the manifest is
\* the one of the build before.
C10_Witness ==
    /\ BuildFailed
    /\ last.res.exc = "OSError:file"
    /\ manifestFile.state = "json"
    /\ \E f \in DOMAIN source :
          /\ HashedName(f, source[f]).parts \in DOMAIN dist
          /\ (Rel(f) \notin DOMAIN manifestFile.entries
              \/ manifestFile.entries[Rel(f)].hashed_path # HashedName(f, source[f]))

(* C9: for every regular file A of the asset root, the development         *)
(* hashed_path_to_file of hash_path(A) is the file A.                      *)
C9_DevRoundTrip ==
    \A f \in DOMAIN source :
        (/\ last.op = "Dev.hashed_path_to_file"
         /\ PathStr(last.arg) = Dev_hash_path(CurrentDisk, Rel(f)))
            => (last.res.tag = "found" /\ last.res.real = FileAt(f))

====
